---------------------------- MODULE Spec2Model ----------------------------
(***************************************************************************)
(* A model of the 3D helper: the multi-engine loader (createEngine and its *)
(* three adapters), the block registry of an engine handle, the render     *)
(* loops, the mat4 matrix library, the WebGL3D scene, shader programs and  *)
(* the Mesh class.                                                         *)
(***************************************************************************)
EXTENDS Integers, Sequences, FiniteSets, TLC

\* JavaScript null/undefined where the other values are records.
Null == [null |-> TRUE]

(***************************************************************************)
(* Bounds of the model.                                                    *)
(***************************************************************************)
MaxPrefer == 2
MaxCalls == 3
MaxLoopIds == 6
MaxMatOps == 2
MaxMeshes == 2
MaxFrames == 3
MaxRenderLoops == 2
MaxMeshCalls == 2
MaxFloat == 1000        \* stands for Number.MAX_VALUE

(***************************************************************************)
(* State.                                                                  *)
(***************************************************************************)
VARIABLES
    \* createEngine(canvas, {prefer})
    prefer,     \* options.prefer || DEFAULT_ORDER
    idx,        \* position of the for-of loop in prefer (1-based)
    cpc,        \* where createEngine is: "loop", "init", "returned", "rejected"
    mod,        \* the module object the current candidate obtained, or Null
    hist,       \* per candidate tried: what was imported and how init ended
    active,     \* engines that hold a renderer/context on the canvas
    result,     \* Null, the returned handle, or the rejection error
    \* an engine handle
    lib,        \* libName of the handle: "three", "babylon" or "playcanvas"
    \* the handle's block registry
    blocks,     \* the Map `blocks`: key "x,y,z" -> native object id
    scene,      \* ids of the block objects in the scene graph
    material,   \* material[id]: the material of native object id
    pending,    \* addBlock calls suspended at their await
    nCalls,     \* addBlock/removeBlock calls issued so far
    expected,   \* coordinates added and not removed since (by completed calls)
    overlap,    \* some call was issued while an addBlock was still in flight
    lastCall,   \* the call that completed last, with what it returned
    \* the handle's render loop
    raf,        \* three: `raf`, the pending request id, 0 for null
    scheduled,  \* three: the browser's pending animation-frame requests
    bloops,     \* Babylon: the engine's list of registered render functions
    paused,     \* PlayCanvas: the application is paused
    nextId,     \* next fresh request id / closure identity
    loopState,  \* "initial", or which of start()/stop() returned last
    lastFrame,  \* what the last display refresh rendered, since that call
    disposed,   \* dispose() has been called on the handle
    \* mat4 calls of an application
    ma,         \* a matrix the application transforms in place
    mb,         \* a second matrix (a copy of an earlier value of ma)
    mres,       \* the matrix the last call wrote (its `out` after the call)
    lastOp,     \* the last mat4 call: its name, arguments and return value
    nOps,       \* in-place calls made on ma so far
    \* a WebGL3D scene and its meshes
    meshes,     \* WebGL3D: this.meshes, in insertion order
    camera,     \* WebGL3D: this.camera
    rotation,   \* Mesh: this.rotation of each mesh, in the angle unit of Cos and Sin
    model,      \* Mesh: this.model of each mesh
    frame,      \* the last render() call: its mesh list and camera, its log, its error
    rafLoops,   \* WebGL3D.start: `loop` callbacks waiting for an animation frame
    nFrames,    \* render() calls so far
    \* one Mesh object of an application
    mobj,       \* the Mesh the application holds (its fields), or Null
    mctor,      \* the last `new Mesh(...)`: its inputs, GL calls and outcome
    mdraw,      \* the last mesh.draw(camera): the mesh, its GL calls and outcome
    nMeshCalls, \* constructor calls so far
    \* mat4.lookAt calls of an application
    look        \* the last lookAt call: its arguments and the matrix returned

LoaderVars == <<prefer, idx, cpc, mod, hist, active, result>>
BlockVars == <<blocks, scene, material, pending, nCalls, expected, overlap, lastCall>>
LoopVars == <<raf, scheduled, bloops, paused, nextId, loopState, lastFrame, disposed>>

MatVars == <<ma, mb, mres, lastOp, nOps>>
RenderVars == <<meshes, camera, rotation, model, frame, rafLoops, nFrames>>
MeshVars == <<mobj, mctor, mdraw, nMeshCalls>>

vars == <<LoaderVars, lib, BlockVars, LoopVars, MatVars, RenderVars, MeshVars, look>>

NotLoader == <<lib, BlockVars, LoopVars, MatVars, RenderVars, MeshVars, look>>
NotBlocks == <<LoaderVars, lib, LoopVars, MatVars, RenderVars, MeshVars, look>>
NotLoop == <<LoaderVars, lib, BlockVars, MatVars, RenderVars, MeshVars, look>>
NotMat == <<LoaderVars, lib, BlockVars, LoopVars, RenderVars, MeshVars, look>>
NotRender == <<LoaderVars, lib, BlockVars, LoopVars, MatVars, MeshVars, look>>
NotMesh == <<LoaderVars, lib, BlockVars, LoopVars, MatVars, RenderVars, look>>
NotLook == <<LoaderVars, lib, BlockVars, LoopVars, MatVars, RenderVars, MeshVars>>

(***************************************************************************)
(* ENGINE LOADER: createEngine(canvas, {prefer}).                          *)
(***************************************************************************)
DEFAULT_ORDER == <<"three", "@babylonjs/core", "playcanvas">>

\* Candidate names a caller may list; "voxel-lib" stands for any raw specifier.
PreferNames == {"three", "@babylonjs/core", "babylon", "playcanvas", "voxel-lib"}

\* The exports a raw specifier's module may have (what lines 425-429 look at).
RawModules ==
    { {"WebGLRenderer", "Scene", "PerspectiveCamera"},
      {"Engine", "Scene"},
      {"Application"},
      {"pc"},
      {"Scene"},
      {} }

NoEngineError == "No supported 3D engine available"

SeqsUpTo(S, n) == UNION { [1..k -> S] : k \in 0..n }

\* tryImport(spec): the module on success, null on any import failure.
tryImport(spec, ok) ==
    IF ok THEN [spec |-> spec] ELSE Null

\* Best-effort detection of a raw specifier's module (lines 425-431).
DetectRaw(exports) ==
    IF {"WebGLRenderer", "Scene", "PerspectiveCamera"} \subseteq exports THEN "three"
    ELSE IF {"Engine", "Scene"} \subseteq exports THEN "babylon"
    ELSE IF "Application" \in exports \/ "pc" \in exports THEN "playcanvas"
    ELSE "none"

\* Acquire without the `if (mod)` test: the adapter is chosen even when every
\* import failed.
Acquire_NoModTest(name, ok1, ok2, wpc, exports) ==
    [imports |-> << <<name, ok1>> >>, global |-> FALSE,
     lib |-> IF name = "three" THEN "three"
             ELSE IF name = "playcanvas" THEN "playcanvas"
             ELSE IF name \in {"@babylonjs/core", "babylon"} THEN "babylon"
             ELSE DetectRaw(exports),
     exports |-> exports]

\* What one pass of the loop body obtains for candidate `name`, before init:
\* the imports it attempted (in order, with their outcome), whether the
\* window.pc global was taken instead, and the adapter it will run.
\* ok1/ok2: outcome of the first/second dynamic import; wpc: window.pc exists;
\* exports: what the raw module exports.
Acquire(name, ok1, ok2, wpc, exports) ==
    IF name = "three" THEN
        [imports |-> << <<"three", ok1>> >>, global |-> FALSE,
         lib |-> IF tryImport("three", ok1) # Null THEN "three" ELSE "none",
         exports |-> {}]
    ELSE IF name = "@babylonjs/core" \/ name = "babylon" THEN
        [imports |-> IF ok1 THEN << <<"@babylonjs/core", TRUE>> >>
                     ELSE << <<"@babylonjs/core", FALSE>>, <<"babylonjs", ok2>> >>,
         global |-> FALSE,
         lib |-> IF tryImport("@babylonjs/core", ok1) # Null
                    \/ tryImport("babylonjs", ok2) # Null
                 THEN "babylon" ELSE "none",
         exports |-> {}]
    ELSE IF name = "playcanvas" THEN
        [imports |-> << <<"playcanvas", ok1>> >>,
         global |-> (tryImport("playcanvas", ok1) = Null) /\ wpc,
         lib |-> IF tryImport("playcanvas", ok1) # Null \/ wpc
                 THEN "playcanvas" ELSE "none",
         exports |-> {}]
    ELSE
        [imports |-> << <<name, ok1>> >>, global |-> FALSE,
         lib |-> IF tryImport(name, ok1) # Null THEN DetectRaw(exports) ELSE "none",
         exports |-> IF ok1 THEN exports ELSE {}]

\* How an adapter's init can end: it returns the handle, it throws before the
\* renderer/engine/application object exists, or it throws at a later statement.
InitOutcomes(m) ==
    IF m.lib = "playcanvas" /\ m.exports = {"pc"}
    THEN {"throwBefore"}   \* initPlaycanvas(mod): mod.Mouse is undefined
    ELSE {"ok", "throwBefore", "throwAfter"}

\* The engine object an init that got past its constructor leaves on the canvas.
\* loop: a render loop is already running (Babylon registers its loop as the
\* last statement of initBabylon; PlayCanvas calls app.start() right after
\* constructing the application; three renders only after handle.start()).
EngineLeft(cand, libName, outcome) ==
    [cand |-> cand, lib |-> libName,
     loop |-> (libName = "playcanvas") \/ (libName = "babylon" /\ outcome = "ok")]

initAdapter(cand, libName, outcome, act) ==
    IF outcome = "throwBefore" THEN act
    ELSE act \cup {EngineLeft(cand, libName, outcome)}

LoaderInit ==
    /\ \E given \in BOOLEAN, p \in SeqsUpTo(PreferNames, MaxPrefer) :
          prefer = IF given THEN p ELSE DEFAULT_ORDER
    /\ idx = 1
    /\ cpc = "loop"
    /\ mod = Null
    /\ hist = << >>
    /\ active = {}
    /\ result = Null

\* Lines 404-433, up to the `if (mod)` test of the current candidate.
CandidateImport ==
    /\ cpc = "loop"
    /\ idx <= Len(prefer)
    /\ \E ok1 \in BOOLEAN, ok2 \in BOOLEAN, wpc \in BOOLEAN, exports \in RawModules :
          LET m == Acquire(prefer[idx], ok1, ok2, wpc, exports) IN
          /\ hist' = Append(hist, [name |-> prefer[idx], imports |-> m.imports,
                                   global |-> m.global, lib |-> m.lib,
                                   init |-> "none"])
          /\ IF m.lib = "none"
             THEN /\ mod' = Null
                  /\ idx' = idx + 1
                  /\ cpc' = "loop"
             ELSE /\ mod' = m
                  /\ idx' = idx
                  /\ cpc' = "init"
    /\ UNCHANGED <<prefer, active, result>>
    /\ UNCHANGED NotLoader

\* `try { return await initX(mod, canvas, options); } catch (e) {}`
CandidateInit ==
    /\ cpc = "init"
    /\ \E outcome \in InitOutcomes(mod) :
          /\ hist' = [hist EXCEPT ![idx].init = outcome]
          /\ active' = initAdapter(idx, mod.lib, outcome, active)
          /\ IF outcome = "ok"
             THEN /\ cpc' = "returned"
                  /\ result' = [libName |-> mod.lib, cand |-> idx]
                  /\ idx' = idx
             ELSE /\ cpc' = "loop"
                  /\ result' = result
                  /\ idx' = idx + 1
    /\ mod' = Null
    /\ UNCHANGED prefer
    /\ UNCHANGED NotLoader

\* Line 436: the list is exhausted.
Exhausted ==
    /\ cpc = "loop"
    /\ idx > Len(prefer)
    /\ cpc' = "rejected"
    /\ result' = [error |-> NoEngineError]
    /\ UNCHANGED <<prefer, idx, mod, hist, active>>
    /\ UNCHANGED NotLoader

createEngine == CandidateImport \/ CandidateInit \/ Exhausted

(***************************************************************************)
(* ENGINE HANDLE: the block registry (addBlock / removeBlock) of the       *)
(* handle an adapter returns.                                              *)
(***************************************************************************)
Libs == {"three", "babylon", "playcanvas"}

\* Integer block coordinates the caller uses.
Coords == { <<-1, 10, 0>>, <<-11, 0, 0>> }

\* settings.texture: absent, a URL that loads, a URL whose load fails.
NoTexture == "none"
GoodUrl == "good.png"
BadUrl == "missing.png"
Textures == {NoTexture, GoodUrl, BadUrl}

\* blockKey without the separators.
blockKey_NoSeparator(x, y, z) == ToString(x) \o ToString(y) \o ToString(z)

\* function blockKey(x, y, z) { return `${x},${y},${z}`; }
blockKey(x, y, z) == ToString(x) \o "," \o ToString(y) \o "," \o ToString(z)

KeyOf(c) == blockKey(c[1], c[2], c[3])

\* Map operations.
MapSet(m, k, v) == [j \in DOMAIN m \cup {k} |-> IF j = k THEN v ELSE m[j]]
MapDelete(m, k) == [j \in DOMAIN m \ {k} |-> m[j]]
MapValues(m) == { m[k] : k \in DOMAIN m }

\* three: makeMaterial awaits the load and falls back to a colour on failure.
makeMaterialThree(tex) ==
    IF tex = GoodUrl THEN "textured" ELSE "flat"

\* Babylon: makeMaterial awaits nothing; `new Texture(...)` returns at once and
\* a failed load is reported later, outside the try block. ctorThrows: the
\* Texture constructor itself threw (the only case the catch sees).
makeMaterialBabylon(tex, ctorThrows) ==
    IF tex # NoTexture
    THEN IF ctorThrows THEN "flat"
         ELSE IF tex = GoodUrl THEN "textured" ELSE "failedTexture"
    ELSE "flat"

\* PlayCanvas: the material built in either branch of addBlock.
makeMaterialPlaycanvas(tex) ==
    IF tex # NoTexture THEN "textured" ELSE "flat"

\* Whether the awaited promise of a suspended addBlock can settle.
\* three: the load's res or rej callback; Babylon: makeMaterial's promise is
\* already resolved; PlayCanvas: asset.ready fires only once the asset has
\* loaded, and nothing rejects the promise when the load fails.
CanResume(l, p) ==
    IF l = "playcanvas" THEN p.tex = GoodUrl ELSE TRUE

EmptyMap == [k \in {} |-> 0]

NoCall ==
    [op |-> "none", key |-> "", tex |-> NoTexture, obj |-> 0, ok |-> FALSE,
     wasRegistered |-> FALSE, created |-> 0, removedWhilePending |-> FALSE,
     preBlocks |-> EmptyMap, preScene |-> {}, preObjs |-> 0]

BlocksInit ==
    /\ blocks = EmptyMap
    /\ scene = {}
    /\ material = << >>
    /\ pending = {}
    /\ nCalls = 0
    /\ expected = {}
    /\ overlap = FALSE
    /\ lastCall = NoCall

\* Ghost bookkeeping of a call being issued.
Issue(key, isAdd) ==
    /\ nCalls' = nCalls + 1
    /\ overlap' = (overlap \/ pending # {})

MarkReadded(ps, key) ==
    { IF p.key = key /\ p.removed THEN [p EXCEPT !.readded = TRUE] ELSE p : p \in ps }

\* addBlock(x, y, z, settings) up to its first await (or to its return).
AddBlockCall(c, tex) ==
    LET key == KeyOf(c)
        id  == Len(material) + 1
        ps  == MarkReadded(pending, key)
    IN
    /\ nCalls < MaxCalls
    /\ UNCHANGED NotBlocks
    /\ Issue(key, TRUE)
    /\ IF key \in DOMAIN blocks
       THEN \* if (blocks.has(key)) return blocks.get(key);
            /\ lastCall' = [NoCall EXCEPT !.op = "addBlock", !.key = key, !.tex = tex,
                                          !.obj = blocks[key], !.ok = TRUE,
                                          !.wasRegistered = TRUE,
                                          !.preBlocks = blocks, !.preScene = scene,
                                          !.preObjs = Len(material)]
            /\ pending' = ps
            /\ UNCHANGED <<blocks, scene, material, expected>>
       ELSE IF lib = "three"
       THEN \* const mat = await makeMaterial(settings);
            /\ pending' = ps \cup {[call |-> nCalls + 1, coord |-> c, key |-> key,
                                    tex |-> tex, obj |-> 0, mat |-> "none",
                                    removed |-> FALSE, readded |-> FALSE]}
            /\ UNCHANGED <<blocks, scene, material, expected, lastCall>>
       ELSE IF lib = "babylon"
       THEN \* MeshBuilder.CreateBox puts the mesh into the scene at once
            \E ctorThrows \in BOOLEAN :
            /\ material' = Append(material, "none")
            /\ scene' = scene \cup {id}
            /\ pending' = ps \cup {[call |-> nCalls + 1, coord |-> c, key |-> key,
                                    tex |-> tex, obj |-> id,
                                    mat |-> makeMaterialBabylon(tex, ctorThrows),
                                    removed |-> FALSE, readded |-> FALSE]}
            /\ UNCHANGED <<blocks, expected, lastCall>>
       ELSE IF tex # NoTexture
       THEN \* PlayCanvas: new pc.Entity(); ... await asset.ready
            /\ material' = Append(material, "none")
            /\ pending' = ps \cup {[call |-> nCalls + 1, coord |-> c, key |-> key,
                                    tex |-> tex, obj |-> id, mat |-> "none",
                                    removed |-> FALSE, readded |-> FALSE]}
            /\ UNCHANGED <<blocks, scene, expected, lastCall>>
       ELSE \* PlayCanvas without a texture: no await, the call runs to its end
            /\ material' = Append(material, makeMaterialPlaycanvas(tex))
            /\ scene' = scene \cup {id}
            /\ blocks' = MapSet(blocks, key, id)
            /\ expected' = expected \cup {c}
            /\ pending' = ps
            /\ lastCall' = [NoCall EXCEPT !.op = "addBlock", !.key = key, !.tex = tex,
                                          !.obj = id, !.ok = TRUE, !.created = 1,
                                          !.preBlocks = blocks, !.preScene = scene,
                                          !.preObjs = Len(material)]

\* The rest of addBlock, after the awaited promise has settled.
AddBlockResume(p) ==
    LET id == IF lib = "three" THEN Len(material) + 1 ELSE p.obj IN
    /\ p \in pending
    /\ CanResume(lib, p)
    /\ pending' = pending \ {p}
    /\ IF lib = "three"
       THEN /\ material' = Append(material, makeMaterialThree(p.tex))
            /\ scene' = scene \cup {id}               \* world.add(mesh)
       ELSE IF lib = "babylon"
       THEN /\ material' = [material EXCEPT ![id] = p.mat]
            /\ scene' = scene
       ELSE /\ material' = [material EXCEPT ![id] = makeMaterialPlaycanvas(p.tex)]
            /\ scene' = scene \cup {id}               \* app.root.addChild(ent)
    /\ blocks' = MapSet(blocks, p.key, id)            \* blocks.set(key, mesh)
    /\ expected' = expected \cup {p.coord}
    /\ lastCall' = [NoCall EXCEPT !.op = "addBlock", !.key = p.key, !.tex = p.tex,
                                  !.obj = id, !.ok = TRUE, !.created = 1,
                                  !.removedWhilePending = (p.removed /\ ~p.readded),
                                  !.preBlocks = blocks, !.preScene = scene,
                                          !.preObjs = Len(material)]
    /\ UNCHANGED <<nCalls, overlap>>
    /\ UNCHANGED NotBlocks

\* removeBlock(x, y, z)
RemoveBlock(c) ==
    LET key == KeyOf(c) IN
    /\ nCalls < MaxCalls
    /\ Issue(key, FALSE)
    /\ pending' = { IF p.key = key THEN [p EXCEPT !.removed = TRUE] ELSE p : p \in pending }
    /\ IF key \notin DOMAIN blocks
       THEN \* if (!m) return false;
            /\ lastCall' = [NoCall EXCEPT !.op = "removeBlock", !.key = key,
                                          !.preBlocks = blocks, !.preScene = scene,
                                          !.preObjs = Len(material)]
            /\ UNCHANGED <<blocks, scene, expected>>
       ELSE /\ scene' = scene \ {blocks[key]}         \* world.remove / dispose / destroy
            /\ blocks' = MapDelete(blocks, key)
            /\ expected' = expected \ {c}
            /\ lastCall' = [NoCall EXCEPT !.op = "removeBlock", !.key = key,
                                          !.obj = blocks[key], !.ok = TRUE,
                                          !.wasRegistered = TRUE,
                                          !.preBlocks = blocks, !.preScene = scene,
                                          !.preObjs = Len(material)]
    /\ UNCHANGED material
    /\ UNCHANGED NotBlocks

(***************************************************************************)
(* ENGINE HANDLE: start() / stop() and the display's refresh.              *)
(***************************************************************************)
NoFrame == [some |-> FALSE, state |-> "initial", renders |-> 0]

\* Babylon's Engine.runRenderLoop(f): registers f unless that very function
\* is registered already.
runRenderLoop(loops, f) ==
    IF \E i \in 1..Len(loops) : loops[i] = f THEN loops ELSE Append(loops, f)

\* Babylon's Engine.stopRenderLoop(f): unregisters that very function.
stopRenderLoop(loops, f) ==
    SelectSeq(loops, LAMBDA g : g # f)

\* The state of the loop right after init: three has no request pending,
\* initBabylon has registered its render function (line 276), initPlaycanvas
\* has started the application (line 311).
LoopInit ==
    /\ raf = 0
    /\ scheduled = {}
    /\ bloops = IF lib = "babylon" THEN <<1>> ELSE << >>
    /\ paused = FALSE
    /\ nextId = 2
    /\ loopState = "initial"
    /\ lastFrame = NoFrame
    /\ disposed = FALSE

\* handle.start()
Start ==
    /\ loopState' = "started"
    /\ lastFrame' = NoFrame
    /\ IF lib = "three"
       THEN IF raf # 0
            THEN UNCHANGED <<raf, scheduled, nextId>>           \* if (raf != null) return;
            ELSE /\ nextId <= MaxLoopIds
                 /\ raf' = nextId                               \* raf = requestAnimationFrame(loop)
                 /\ scheduled' = scheduled \cup {nextId}
                 /\ nextId' = nextId + 1
       ELSE UNCHANGED <<raf, scheduled>>
    /\ IF lib = "babylon"
       THEN /\ nextId <= MaxLoopIds
            /\ bloops' = runRenderLoop(bloops, nextId)          \* a new arrow function
            /\ nextId' = nextId + 1
       ELSE UNCHANGED bloops
    /\ IF lib = "playcanvas"
       THEN paused' = FALSE /\ UNCHANGED nextId                 \* app.resume()
       ELSE UNCHANGED paused
    /\ UNCHANGED disposed
    /\ UNCHANGED NotLoop

\* handle.stop()
Stop ==
    /\ loopState' = "stopped"
    /\ lastFrame' = NoFrame
    /\ IF lib = "three"
       THEN IF raf = 0
            THEN UNCHANGED <<raf, scheduled, nextId>>           \* if (raf == null) return;
            ELSE /\ scheduled' = scheduled \ {raf}              \* cancelAnimationFrame(raf)
                 /\ raf' = 0
                 /\ UNCHANGED nextId
       ELSE UNCHANGED <<raf, scheduled>>
    /\ IF lib = "babylon"
       THEN /\ nextId <= MaxLoopIds
            /\ bloops' = stopRenderLoop(bloops, nextId)         \* another new arrow function
            /\ nextId' = nextId + 1
       ELSE UNCHANGED bloops
    /\ IF lib = "playcanvas"
       THEN paused' = TRUE /\ UNCHANGED nextId                  \* app.pause()
       ELSE UNCHANGED paused
    /\ UNCHANGED disposed
    /\ UNCHANGED NotLoop

\* handle.dispose(): three calls stop() and releases the meshes and the
\* renderer; Babylon's engine.dispose() drops every registered render
\* function; PlayCanvas's app.destroy() ends the application's ticks.
Dispose ==
    /\ ~disposed
    /\ disposed' = TRUE
    /\ loopState' = "disposed"
    /\ lastFrame' = NoFrame
    /\ IF lib = "three" /\ raf # 0
       THEN /\ scheduled' = scheduled \ {raf}
            /\ raf' = 0
       ELSE UNCHANGED <<raf, scheduled>>
    /\ bloops' = IF lib = "babylon" THEN << >> ELSE bloops
    /\ UNCHANGED <<paused, nextId>>
    /\ UNCHANGED NotLoop

\* One display refresh: the pending animation-frame callbacks run.
Frame ==
    /\ IF lib = "three"
       THEN \* each pending `loop` renders once and requests the next frame
            LET n == Cardinality(scheduled) IN
            /\ nextId + n - 1 <= MaxLoopIds
            /\ scheduled' = nextId .. (nextId + n - 1)
            /\ raf' = IF n = 0 THEN raf ELSE nextId + n - 1
            /\ nextId' = nextId + n
            /\ lastFrame' = [some |-> TRUE, state |-> loopState, renders |-> n]
       ELSE IF lib = "babylon"
       THEN \* the engine calls every registered render function
            /\ lastFrame' = [some |-> TRUE, state |-> loopState, renders |-> Len(bloops)]
            /\ UNCHANGED <<raf, scheduled, nextId>>
       ELSE /\ lastFrame' = [some |-> TRUE, state |-> loopState,
                             renders |-> IF paused \/ disposed THEN 0 ELSE 1]
            /\ UNCHANGED <<raf, scheduled, nextId>>
    /\ UNCHANGED <<bloops, paused, loopState, disposed>>
    /\ UNCHANGED NotLoop

(***************************************************************************)
(* MATRIX LIBRARY: mat4.  Numbers are exact rationals <<n, d>> with d > 0  *)
(* and gcd(n, d) = 1, so that 1 / det and sin/cos values are represented   *)
(* exactly; a matrix is its 16 entries, entry i of the source at i + 1.    *)
(***************************************************************************)
Abs(n) == IF n < 0 THEN -n ELSE n

RECURSIVE GCD(_, _)
GCD(a, b) == IF b = 0 THEN a ELSE GCD(b, a % b)

RNorm(n, d) ==
    LET g == GCD(Abs(n), Abs(d))
        sg == IF d < 0 THEN -1 ELSE 1
    IN <<(sg * n) \div g, (sg * d) \div g>>

R(n) == <<n, 1>>
Zero == R(0)
One == R(1)
RNeg(a) == <<-a[1], a[2]>>
RAdd(a, b) ==
    LET l == (a[2] \div GCD(a[2], b[2])) * b[2]
    IN RNorm(a[1] * (l \div a[2]) + b[1] * (l \div b[2]), l)
RSub(a, b) == RAdd(a, RNeg(b))
RMul(a, b) ==
    LET g1 == GCD(Abs(a[1]), b[2])
        g2 == GCD(Abs(b[1]), a[2])
    IN IF a[1] = 0 \/ b[1] = 0 THEN Zero
       ELSE <<(a[1] \div g1) * (b[1] \div g2), (a[2] \div g2) * (b[2] \div g1)>>
RInv(a) == RNorm(a[2], a[1])              \* 1 / a, a # 0
RSum4(a, b, c, d) == RAdd(RAdd(RAdd(a, b), c), d)

\* m[i] of the source.
At(m, i) == m[i + 1]

\* The assignments `out[i] = w[i]` for the i in DOMAIN w; other entries of
\* out keep what they held.
Write(out, w) == [i \in 1..16 |-> IF (i - 1) \in DOMAIN w THEN w[i - 1] ELSE out[i]]

\* create(): a new identity matrix.
create ==
    [i \in 1..16 |-> IF i \in {1, 6, 11, 16} THEN One ELSE Zero]

\* clone(a), copy(out, a)
clone(a) == a
copy(out, a) == Write(out, [i \in 0..15 |-> At(a, i)])

\* Math.sin / Math.cos of the angle n * theta, theta = atan(3/4): the n-th
\* power of the unit complex number 4/5 + 3/5 i.
RECURSIVE CosSin(_)
CosSin(n) ==
    IF n = 0 THEN <<One, Zero>>
    ELSE IF n < 0 THEN <<CosSin(-n)[1], RNeg(CosSin(-n)[2])>>
    ELSE LET p == CosSin(n - 1)
             c == <<4, 5>>
             sn == <<3, 5>>
         IN <<RSub(RMul(p[1], c), RMul(p[2], sn)), RAdd(RMul(p[2], c), RMul(p[1], sn))>>
Cos(n) == CosSin(n)[1]
Sin(n) == CosSin(n)[2]

\* ortho(out, left, right, bottom, top, near, far)
ortho(out, left, right, bottom, top, near, far) ==
    LET lr == RInv(RSub(left, right))
        bt == RInv(RSub(bottom, top))
        nf == RInv(RSub(near, far))
    IN Write(out,
        (0 :> RMul(R(-2), lr)) @@
        (5 :> RMul(R(-2), bt)) @@
        (10 :> RMul(R(2), nf)) @@
        (12 :> RMul(RAdd(left, right), lr)) @@
        (13 :> RMul(RAdd(top, bottom), bt)) @@
        (14 :> RMul(RAdd(far, near), nf)) @@
        (15 :> One))

\* multiply(out, a, b): with a_rk = a[4r + k] and b_kc = b[4k + c],
\* o[4r + c] = a_r0 * b_0c + a_r1 * b_1c + a_r2 * b_2c + a_r3 * b_3c.
multiply(out, a, b) ==
    Write(out, [i \in 0..15 |->
        LET r == i \div 4
            c == i % 4
        IN RSum4(RMul(At(a, 4 * r), At(b, c)),
                 RMul(At(a, 4 * r + 1), At(b, 4 + c)),
                 RMul(At(a, 4 * r + 2), At(b, 8 + c)),
                 RMul(At(a, 4 * r + 3), At(b, 12 + c)))])

\* translate(out, a, v): writes out[12..15] only.
translate(out, a, v) ==
    LET x == v[1]
        y == v[2]
        z == v[3]
    IN Write(out,
        (12 :> RSum4(RMul(At(a, 0), x), RMul(At(a, 4), y), RMul(At(a, 8), z), At(a, 12))) @@
        (13 :> RSum4(RMul(At(a, 1), x), RMul(At(a, 5), y), RMul(At(a, 9), z), At(a, 13))) @@
        (14 :> RSum4(RMul(At(a, 2), x), RMul(At(a, 6), y), RMul(At(a, 10), z), At(a, 14))) @@
        (15 :> RSum4(RMul(At(a, 3), x), RMul(At(a, 7), y), RMul(At(a, 11), z), At(a, 15))))

\* scale(out, a, v): writes out[0..11] only.
scale(out, a, v) ==
    Write(out, [i \in 0..11 |-> RMul(At(a, i), v[(i \div 4) + 1])])

\* rotateX(out, a, rad): writes out[4..11] only.
rotateX(out, a, rad) ==
    LET s == Sin(rad)
        c == Cos(rad)
    IN Write(out, [i \in 4..11 |->
        IF i < 8
        THEN RAdd(RMul(At(a, i), c), RMul(At(a, i + 4), s))      \* a1j * c + a2j * s
        ELSE RSub(RMul(At(a, i), c), RMul(At(a, i - 4), s))])    \* a2j * c - a1j * s

\* rotateY(out, a, rad): writes out[0..3] and out[8..11] only.
rotateY(out, a, rad) ==
    LET s == Sin(rad)
        c == Cos(rad)
    IN Write(out, [i \in (0..3) \cup (8..11) |->
        IF i < 4
        THEN RSub(RMul(At(a, i), c), RMul(At(a, i + 8), s))      \* a0j * c - a2j * s
        ELSE RAdd(RMul(At(a, i - 8), s), RMul(At(a, i), c))])    \* a0j * s + a2j * c

\* rotateZ(out, a, rad): writes out[0..7] only.
rotateZ(out, a, rad) ==
    LET s == Sin(rad)
        c == Cos(rad)
    IN Write(out, [i \in 0..7 |->
        IF i < 4
        THEN RAdd(RMul(At(a, i), c), RMul(At(a, i + 4), s))      \* a0j * c + a1j * s
        ELSE RSub(RMul(At(a, i), c), RMul(At(a, i - 4), s))])    \* a1j * c - a0j * s

\* The 2x2 sub-determinants b00..b11 of invert (lines 254-266), as <<b00, ..., b11>>.
invertMinors(m) ==
    LET a00 == At(m, 0)   a01 == At(m, 1)   a02 == At(m, 2)   a03 == At(m, 3)
        a10 == At(m, 4)   a11 == At(m, 5)   a12 == At(m, 6)   a13 == At(m, 7)
        a20 == At(m, 8)   a21 == At(m, 9)   a22 == At(m, 10)  a23 == At(m, 11)
        a30 == At(m, 12)  a31 == At(m, 13)  a32 == At(m, 14)  a33 == At(m, 15)
    IN << RSub(RMul(a00, a11), RMul(a01, a10)),
          RSub(RMul(a00, a12), RMul(a02, a10)),
          RSub(RMul(a00, a13), RMul(a03, a10)),
          RSub(RMul(a01, a12), RMul(a02, a11)),
          RSub(RMul(a01, a13), RMul(a03, a11)),
          RSub(RMul(a02, a13), RMul(a03, a12)),
          RSub(RMul(a20, a31), RMul(a21, a30)),
          RSub(RMul(a20, a32), RMul(a22, a30)),
          RSub(RMul(a20, a33), RMul(a23, a30)),
          RSub(RMul(a21, a32), RMul(a22, a31)),
          RSub(RMul(a21, a33), RMul(a23, a31)),
          RSub(RMul(a22, a33), RMul(a23, a32)) >>

\* const det = b00*b11 - b01*b10 + b02*b09 + b03*b08 - b04*b07 + b05*b06;
invertDet(m) ==
    LET b == invertMinors(m) IN
    RAdd(RSub(RAdd(RAdd(RSub(RMul(b[1], b[12]), RMul(b[2], b[11])),
                        RMul(b[3], b[10])),
                   RMul(b[4], b[9])),
              RMul(b[5], b[8])),
         RMul(b[6], b[7]))

\* x*p - y*q + z*r and -x*p + y*q - z*r
PMP(x, p, y, q, z, r) == RAdd(RSub(RMul(x, p), RMul(y, q)), RMul(z, r))
MPM(x, p, y, q, z, r) == RNeg(PMP(x, p, y, q, z, r))

\* invert without the `if (!det) return null` test for matrices whose last
\* row/column makes the determinant vanish: it reports failure only for the
\* zero matrix.
invert_NoSingularTest(out, a) ==
    IF a = [i \in 1..16 |-> Zero]
    THEN [ret |-> "null", out |-> out]
    ELSE [ret |-> "out", out |-> a]

\* invert(out, a): ret is "null" when the function returned null (out is
\* then untouched), "out" when it returned the matrix it wrote.
invert(out, a) ==
    LET m == a
        a00 == At(m, 0)   a01 == At(m, 1)   a02 == At(m, 2)   a03 == At(m, 3)
        a10 == At(m, 4)   a11 == At(m, 5)   a12 == At(m, 6)   a13 == At(m, 7)
        a20 == At(m, 8)   a21 == At(m, 9)   a22 == At(m, 10)  a23 == At(m, 11)
        a30 == At(m, 12)  a31 == At(m, 13)  a32 == At(m, 14)  a33 == At(m, 15)
        b == invertMinors(m)
        b00 == b[1]  b01 == b[2]  b02 == b[3]  b03 == b[4]
        b04 == b[5]  b05 == b[6]  b06 == b[7]  b07 == b[8]
        b08 == b[9]  b09 == b[10] b10 == b[11] b11 == b[12]
        det == invertDet(m)
    IN
    IF det = Zero THEN [ret |-> "null", out |-> out]
    ELSE LET invDet == RInv(det) IN
         [ret |-> "out",
          out |-> Write(out,
            (0  :> RMul(PMP(a11, b11, a12, b10, a13, b09), invDet)) @@
            (1  :> RMul(MPM(a01, b11, a02, b10, a03, b09), invDet)) @@
            (2  :> RMul(PMP(a31, b05, a32, b04, a33, b03), invDet)) @@
            (3  :> RMul(MPM(a21, b05, a22, b04, a23, b03), invDet)) @@
            (4  :> RMul(MPM(a10, b11, a12, b08, a13, b07), invDet)) @@
            (5  :> RMul(PMP(a00, b11, a02, b08, a03, b07), invDet)) @@
            (6  :> RMul(MPM(a30, b05, a32, b02, a33, b01), invDet)) @@
            (7  :> RMul(PMP(a20, b05, a22, b02, a23, b01), invDet)) @@
            (8  :> RMul(PMP(a10, b10, a11, b08, a13, b06), invDet)) @@
            (9  :> RMul(MPM(a00, b10, a01, b08, a03, b06), invDet)) @@
            (10 :> RMul(PMP(a30, b04, a31, b02, a33, b00), invDet)) @@
            (11 :> RMul(MPM(a20, b04, a21, b02, a23, b00), invDet)) @@
            (12 :> RMul(MPM(a10, b09, a11, b07, a12, b06), invDet)) @@
            (13 :> RMul(PMP(a00, b09, a01, b07, a02, b06), invDet)) @@
            (14 :> RMul(MPM(a30, b03, a31, b01, a32, b00), invDet)) @@
            (15 :> RMul(PMP(a20, b03, a21, b01, a22, b00), invDet)))]

(***************************************************************************)
(* An application calling mat4: it builds ma by in-place calls (out === a) *)
(* and also calls the operations with a separate output matrix, which is   *)
(* either a fresh identity or a matrix left over from other use.           *)
(***************************************************************************)
Junk == [i \in 1..16 |-> R(7)]

\* Where a call's `out` comes from: "a" is ma itself (in place), "fresh" a
\* new mat4.create(), "used" a matrix holding other values.
Dests == {"a", "fresh", "used"}
OutOf(dest) == IF dest = "a" THEN ma ELSE IF dest = "fresh" THEN create ELSE Junk

Vec(x, y, z) == <<R(x), R(y), R(z)>>
Vecs == { Vec(1, 2, -3) }
Scales == { Vec(2, 3, -1), Vec(1, 0, 1) }
Angles == { 1 }
Axes == {"X", "Y", "Z"}
Boxes == { <<R(-1), R(1), R(-1), R(1), R(1), R(3)>> }

rotate(axis, out, a, rad) ==
    IF axis = "X" THEN rotateX(out, a, rad)
    ELSE IF axis = "Y" THEN rotateY(out, a, rad)
    ELSE rotateZ(out, a, rad)

NoOp == [op |-> "none", dest |-> "fresh", a |-> create, b |-> create,
         v |-> Vec(0, 0, 0), rad |-> 0, box |-> <<Zero, Zero, Zero, Zero, Zero, Zero>>,
         ret |-> "out"]

MatInit ==
    /\ ma = create
    /\ mb = create
    /\ mres = create
    /\ lastOp = NoOp
    /\ nOps = 0

\* The result lands in ma when the call is in place.
Land(dest, r) ==
    /\ mres' = r
    /\ IF dest = "a"
       THEN nOps < MaxMatOps /\ ma' = r /\ nOps' = nOps + 1
       ELSE UNCHANGED <<ma, nOps>>
    /\ UNCHANGED mb
    /\ UNCHANGED NotMat

MTranslate(dest, v) ==
    /\ Land(dest, translate(OutOf(dest), ma, v))
    /\ lastOp' = [NoOp EXCEPT !.op = "translate", !.dest = dest, !.a = ma, !.v = v]

MScale(dest, v) ==
    /\ Land(dest, scale(OutOf(dest), ma, v))
    /\ lastOp' = [NoOp EXCEPT !.op = "scale", !.dest = dest, !.a = ma, !.v = v]

MRotate(axis, dest, rad) ==
    /\ Land(dest, rotate(axis, OutOf(dest), ma, rad))
    /\ lastOp' = [NoOp EXCEPT !.op = "rotate" \o axis, !.dest = dest, !.a = ma,
                              !.rad = rad]

MOrtho(dest, box) ==
    /\ dest # "a"
    /\ Land(dest, ortho(OutOf(dest), box[1], box[2], box[3], box[4], box[5], box[6]))
    /\ lastOp' = [NoOp EXCEPT !.op = "ortho", !.dest = dest, !.box = box]

\* multiply(out, ma, mb)
MMultiply ==
    /\ Land("used", multiply(OutOf("used"), ma, mb))
    /\ lastOp' = [NoOp EXCEPT !.op = "multiply", !.dest = "used", !.a = ma, !.b = mb]

\* multiply(out, ma, T) with T = translate(create(), create(), v)
MMultiplyTranslation(v) ==
    LET T == translate(create, create, v) IN
    /\ Land("used", multiply(OutOf("used"), ma, T))
    /\ lastOp' = [NoOp EXCEPT !.op = "multiplyT", !.dest = "used", !.a = ma,
                              !.b = T, !.v = v]

\* invert(out, ma)
MInvert ==
    LET r == invert(OutOf("used"), ma) IN
    /\ Land("used", r.out)
    /\ lastOp' = [NoOp EXCEPT !.op = "invert", !.dest = "used", !.a = ma, !.ret = r.ret]

\* copy(mb, ma)
MCopyToB ==
    /\ mb # ma
    /\ mb' = copy(mb, ma)
    /\ mres' = copy(mb, ma)
    /\ lastOp' = [NoOp EXCEPT !.op = "copy", !.a = ma]
    /\ UNCHANGED <<ma, nOps>>
    /\ UNCHANGED NotMat

MatNext ==
    \/ \E dest \in Dests, v \in Vecs : MTranslate(dest, v)
    \/ \E dest \in Dests, v \in Scales : MScale(dest, v)
    \/ \E axis \in Axes, dest \in Dests, rad \in Angles : MRotate(axis, dest, rad)
    \/ \E dest \in Dests, box \in Boxes : MOrtho(dest, box)
    \/ MMultiply
    \/ \E v \in Vecs : MMultiplyTranslation(v)
    \/ MInvert
    \/ MCopyToB

(***************************************************************************)
(* WEBGL3D SCENE AND MESH: addMesh, setCamera, render, start; Mesh.update  *)
(* and Mesh.draw.                                                          *)
(***************************************************************************)
\* The Mesh objects the application has constructed.
MeshIds == 1..MaxMeshes

\* The properties of the exported mat4 object.
mat4Members ==
    {"create", "clone", "copy", "perspective", "ortho", "multiply", "translate",
     "scale", "rotateX", "rotateY", "rotateZ", "invert", "lookAt"}

\* options.rotationSpeed || [0.01, 0.01, 0], one angle unit standing for 0.01.
rotationSpeed == <<1, 1, 0>>

\* new Camera(fov, aspect, near, far); its projection matrix is left out.
TheCamera == [position |-> <<0, 0, 5>>, view |-> create]

GlEvent(ev, m) == [ev |-> ev, mesh |-> m]
NoError == "none"
TypeError == "TypeError"

\* The state a render() call works on.
RenderState == [rotation |-> rotation, model |-> model, log |-> << >>, err |-> NoError]

\* Mesh.update() of mesh m: the rotation is advanced, then the model matrix
\* is rebuilt; calling a property mat4 does not have throws a TypeError.
update(m, st) ==
    LET rot == [k \in 1..3 |-> st.rotation[m][k] + rotationSpeed[k]]
        entered == [st EXCEPT !.rotation[m] = rot,
                              !.log = Append(@, GlEvent("update", m))]
    IN IF "identity" \notin mat4Members
       THEN [entered EXCEPT !.err = TypeError]
       ELSE LET m0 == create
                m1 == rotateX(m0, m0, rot[1])
                m2 == rotateY(m1, m1, rot[2])
                m3 == rotateZ(m2, m2, rot[3])
            IN [entered EXCEPT !.model[m] = m3]

\* Mesh.draw(camera) of mesh m: reading camera.projection of a null camera
\* throws; otherwise the uniforms are set and the draw call is submitted.
draw(m, cam, st) ==
    IF cam = Null
    THEN [st EXCEPT !.err = TypeError]
    ELSE [st EXCEPT !.log = Append(@, GlEvent("draw", m))]

\* for (let mesh of this.meshes) { mesh.update(); mesh.draw(this.camera); }
\* from position i on; an exception ends the loop.
RECURSIVE ForOfMeshes(_, _)
ForOfMeshes(i, st) ==
    IF i > Len(meshes) \/ st.err # NoError THEN st
    ELSE LET u == update(meshes[i], st)
         IN IF u.err # NoError THEN u
            ELSE ForOfMeshes(i + 1, draw(meshes[i], camera, u))

\* render(): gl.clear(...), then the loop over the meshes.
render ==
    ForOfMeshes(1, [RenderState EXCEPT !.log = <<GlEvent("clear", 0)>>])

NoRender == [some |-> FALSE, meshes |-> << >>, camera |-> Null, log |-> << >>, err |-> NoError]

RenderInit ==
    /\ meshes = << >>
    /\ camera = Null
    /\ rotation = [m \in MeshIds |-> <<0, 0, 0>>]
    /\ model = [m \in MeshIds |-> create]
    /\ frame = NoRender
    /\ rafLoops = 0
    /\ nFrames = 0

\* What a render() call leaves behind.
Rendered(r) ==
    /\ rotation' = r.rotation
    /\ model' = r.model
    /\ frame' = [some |-> TRUE, meshes |-> meshes, camera |-> camera,
                 log |-> r.log, err |-> r.err]
    /\ nFrames' = nFrames + 1

\* addMesh(mesh)
AddMesh(m) ==
    /\ Len(meshes) < MaxMeshes
    /\ meshes' = Append(meshes, m)
    /\ UNCHANGED <<camera, rotation, model, frame, rafLoops, nFrames>>
    /\ UNCHANGED NotRender

\* setCamera(camera)
SetCamera(cam) ==
    /\ camera # cam
    /\ camera' = cam
    /\ UNCHANGED <<meshes, rotation, model, frame, rafLoops, nFrames>>
    /\ UNCHANGED NotRender

\* The application calls render() itself.
RenderCall ==
    /\ nFrames < MaxFrames
    /\ Rendered(render)
    /\ UNCHANGED <<meshes, camera, rafLoops>>
    /\ UNCHANGED NotRender

\* start(): loop() runs at once: render(), then requestAnimationFrame(loop),
\* which is not reached when render() throws.
StartCall ==
    /\ nFrames < MaxFrames
    /\ rafLoops < MaxRenderLoops
    /\ Rendered(render)
    /\ rafLoops' = IF render.err = NoError THEN rafLoops + 1 ELSE rafLoops
    /\ UNCHANGED <<meshes, camera>>
    /\ UNCHANGED NotRender

\* The browser runs one waiting `loop` callback: render(), then the callback
\* requests the next frame unless render() threw.
AnimationFrame ==
    /\ rafLoops > 0
    /\ nFrames < MaxFrames
    /\ Rendered(render)
    /\ rafLoops' = IF render.err = NoError THEN rafLoops ELSE rafLoops - 1
    /\ UNCHANGED <<meshes, camera>>
    /\ UNCHANGED NotRender

RenderNext ==
    \/ \E m \in MeshIds : AddMesh(m)
    \/ \E cam \in {Null, TheCamera} : SetCamera(cam)
    \/ RenderCall
    \/ StartCall
    \/ AnimationFrame

(***************************************************************************)
(* SHADER PROGRAMS AND ONE MESH OBJECT: createShaderProgram, createShader,  *)
(* the Mesh constructor with init(), and Mesh.draw with its GL calls.      *)
(***************************************************************************)
\* One call on the WebGL context: the function, what it is applied to and,
\* for draw calls, the element count.
GlCall(fn, what, n) == [fn |-> fn, what |-> what, n |-> n]

\* What the driver says about the two sources and the link: the statuses
\* gl.getShaderParameter / gl.getProgramParameter report.
ShaderOutcomes == [vertex : BOOLEAN, fragment : BOOLEAN, link : BOOLEAN]

\* gl.getShaderInfoLog(shader) / gl.getProgramInfoLog(program)
InfoLog(what) == "info log of " \o what

\* createShader without the COMPILE_STATUS test.
createShader_NoStatusTest(type, ok) ==
    [threw |-> FALSE, message |-> "", calls |-> <<GlCall("compileShader", type, Zero)>>]

\* createShader(gl, type, src)
createShader(type, ok) ==
    IF ~ok
    THEN [threw |-> TRUE, message |-> "Shader compile error: " \o InfoLog(type),
          calls |-> <<GlCall("compileShader", type, Zero)>>]
    ELSE [threw |-> FALSE, message |-> "",
          calls |-> <<GlCall("compileShader", type, Zero)>>]

\* createShaderProgram(gl, vertexSrc, fragmentSrc)
createShaderProgram(sh) ==
    LET vertex == createShader("VERTEX_SHADER", sh.vertex) IN
    IF vertex.threw
    THEN [threw |-> TRUE, message |-> vertex.message, calls |-> vertex.calls,
          program |-> Null]
    ELSE LET fragment == createShader("FRAGMENT_SHADER", sh.fragment)
             compiled == vertex.calls \o fragment.calls
         IN IF fragment.threw
            THEN [threw |-> TRUE, message |-> fragment.message, calls |-> compiled,
                  program |-> Null]
            ELSE LET linked == compiled \o <<GlCall("linkProgram", "program", Zero)>> IN
                 IF ~sh.link
                 THEN [threw |-> TRUE,
                       message |-> "Shader link error: " \o InfoLog("program"),
                       calls |-> linked, program |-> Null]
                 ELSE [threw |-> FALSE, message |-> "", calls |-> linked,
                       program |-> [linked |-> TRUE]]

\* The `data` argument of the constructor: vertices is the number of floats,
\* indices is Null or a list (by its length), stride 0 stands for an absent
\* or zero data.stride.
IndexList(n) == [length |-> n]
MeshData ==
    [vertices : {48, 20}, indices : {Null, IndexList(0), IndexList(6)}, stride : {0, 6, 8}]

\* Mesh.init(): the vertex buffer, the index buffer if there are indices,
\* the attribute and uniform look-ups.
init(obj) ==
    <<GlCall("createBuffer", "vbo", Zero), GlCall("bufferData", "vbo", Zero)>>
    \o (IF obj.indices # Null
        THEN <<GlCall("createBuffer", "ibo", Zero), GlCall("bufferData", "ibo", Zero)>>
        ELSE << >>)
    \o <<GlCall("getAttribLocation", "aPosition", Zero),
         GlCall("getAttribLocation", "aNormal", Zero),
         GlCall("getAttribLocation", "aUV", Zero),
         GlCall("getUniformLocation", "uProjection", Zero),
         GlCall("getUniformLocation", "uView", Zero),
         GlCall("getUniformLocation", "uModel", Zero),
         GlCall("getUniformLocation", "uColor", Zero),
         GlCall("getUniformLocation", "uTexture", Zero)>>

\* new Mesh(gl, data, vertexSrc, fragmentSrc): the fields are set, the
\* program is built (an exception ends the constructor), then init() runs.
MeshConstructor(data, sh) ==
    LET prog == createShaderProgram(sh)
        obj == [vertices |-> data.vertices,
                indices |-> data.indices,
                stride |-> IF data.stride = 0 THEN 8 ELSE data.stride,
                program |-> prog.program,
                ibo |-> data.indices # Null]
    IN IF prog.threw
       THEN [threw |-> TRUE, message |-> prog.message, calls |-> prog.calls, obj |-> Null]
       ELSE [threw |-> FALSE, message |-> "", calls |-> prog.calls \o init(obj),
             obj |-> obj]

\* enableAttributes()
enableAttributes ==
    <<GlCall("bindBuffer", "vbo", Zero),
      GlCall("vertexAttribPointer", "aPosition", Zero),
      GlCall("vertexAttribPointer", "aNormal", Zero),
      GlCall("vertexAttribPointer", "aUV", Zero)>>

\* The draw call of a mesh that ignores the index list.
DrawCallOf_AlwaysArrays(obj) ==
    <<GlCall("drawArrays", "TRIANGLES", RNorm(obj.vertices, obj.stride))>>

\* if (this.indices) { bindBuffer; drawElements(..., this.indices.length, ...) }
\* else drawArrays(..., 0, this.vertices.length / this.stride)
DrawCallOf(obj) ==
    IF obj.indices # Null
    THEN <<GlCall("bindBuffer", "ibo", Zero),
           GlCall("drawElements", "TRIANGLES", R(obj.indices.length))>>
    ELSE <<GlCall("drawArrays", "TRIANGLES", RNorm(obj.vertices, obj.stride))>>

\* Mesh.draw(camera): reading camera.projection of a null camera throws after
\* gl.useProgram.
MeshDraw(obj, cam) ==
    IF cam = Null
    THEN [threw |-> TRUE, calls |-> <<GlCall("useProgram", "program", Zero)>>]
    ELSE [threw |-> FALSE,
          calls |-> <<GlCall("useProgram", "program", Zero),
                      GlCall("uniformMatrix4fv", "uProjection", Zero),
                      GlCall("uniformMatrix4fv", "uView", Zero),
                      GlCall("uniformMatrix4fv", "uModel", Zero)>>
                    \o enableAttributes \o DrawCallOf(obj)]

NoCtor == [some |-> FALSE, data |-> [vertices |-> 0, indices |-> Null, stride |-> 0],
           sh |-> [vertex |-> TRUE, fragment |-> TRUE, link |-> TRUE],
           threw |-> FALSE, message |-> "", calls |-> << >>, obj |-> Null]
NoDraw == [some |-> FALSE, obj |-> Null, camera |-> Null, threw |-> FALSE, calls |-> << >>]

MeshInit ==
    /\ mobj = Null
    /\ mctor = NoCtor
    /\ mdraw = NoDraw
    /\ nMeshCalls = 0

\* mesh = new Mesh(gl, data, vs, fs): the assignment happens only if the
\* constructor returns.
NewMesh(data, sh) ==
    LET r == MeshConstructor(data, sh) IN
    /\ nMeshCalls < MaxMeshCalls
    /\ nMeshCalls' = nMeshCalls + 1
    /\ mctor' = [some |-> TRUE, data |-> data, sh |-> sh, threw |-> r.threw,
                 message |-> r.message, calls |-> r.calls, obj |-> r.obj]
    /\ mobj' = IF r.threw THEN mobj ELSE r.obj
    /\ UNCHANGED mdraw
    /\ UNCHANGED NotMesh

\* mesh.draw(camera)
DrawCall(cam) ==
    LET r == MeshDraw(mobj, cam) IN
    /\ mobj # Null
    /\ mdraw' = [some |-> TRUE, obj |-> mobj, camera |-> cam, threw |-> r.threw,
                 calls |-> r.calls]
    /\ UNCHANGED <<mobj, mctor, nMeshCalls>>
    /\ UNCHANGED NotMesh

MeshNext ==
    \/ \E data \in MeshData, sh \in ShaderOutcomes : NewMesh(data, sh)
    \/ \E cam \in {Null, TheCamera} : DrawCall(cam)

(***************************************************************************)
(* mat4.lookAt, in floating-point numbers with their special values: a     *)
(* number is a rational <<n, d>>, Infinity is <<1, 0>>, -Infinity <<-1, 0>>*)
(* and NaN <<0, 0>>; a result beyond MaxFloat in magnitude is an infinity. *)
(* Rounding of finite results and the sign of zero are left out.           *)
(***************************************************************************)
NaN == <<0, 0>>
PosInf == <<1, 0>>
NegInf == <<-1, 0>>
IsNaN(a) == a = NaN
IsInf(a) == a[2] = 0 /\ a[1] # 0
IsFinite(a) == a[2] # 0
Sign(a) == IF a[1] > 0 THEN 1 ELSE IF a[1] < 0 THEN -1 ELSE 0
Infinity(sign) == IF sign < 0 THEN NegInf ELSE PosInf

\* A finite exact result as the number the operation returns.
Overflow(a) ==
    IF a[1] > MaxFloat * a[2] THEN PosInf
    ELSE IF -a[1] > MaxFloat * a[2] THEN NegInf
    ELSE a

FNeg(a) == <<-a[1], a[2]>>
FAdd(a, b) ==
    IF IsNaN(a) \/ IsNaN(b) THEN NaN
    ELSE IF IsInf(a) /\ IsInf(b) THEN (IF a = b THEN a ELSE NaN)
    ELSE IF IsInf(a) THEN a
    ELSE IF IsInf(b) THEN b
    ELSE Overflow(RAdd(a, b))
FSub(a, b) == FAdd(a, FNeg(b))
FMul(a, b) ==
    IF IsNaN(a) \/ IsNaN(b) THEN NaN
    ELSE IF IsInf(a) \/ IsInf(b)
    THEN (IF Sign(a) * Sign(b) = 0 THEN NaN ELSE Infinity(Sign(a) * Sign(b)))
    ELSE Overflow(RMul(a, b))
FDiv(a, b) ==
    IF IsNaN(a) \/ IsNaN(b) THEN NaN
    ELSE IF IsInf(a) THEN (IF IsInf(b) THEN NaN
                           ELSE Infinity(Sign(a) * (IF Sign(b) < 0 THEN -1 ELSE 1)))
    ELSE IF IsInf(b) THEN Zero
    ELSE IF b = Zero THEN (IF a = Zero THEN NaN ELSE Infinity(Sign(a)))
    ELSE Overflow(RMul(a, RInv(b)))

\* The largest k in lo..hi with k * k <= n.
RECURSIVE FloorSqrt(_, _, _)
FloorSqrt(lo, hi, n) ==
    IF lo >= hi THEN lo
    ELSE LET mid == (lo + hi + 1) \div 2
         IN IF mid * mid <= n THEN FloorSqrt(mid, hi, n) ELSE FloorSqrt(lo, mid - 1, n)
ISqrt(n) == FloorSqrt(0, IF n < 46340 THEN n ELSE 46340, n)
IsSquare(n) == ISqrt(n) * ISqrt(n) = n

SumOfSquares(x, y, z) == RAdd(RAdd(RMul(x, x), RMul(y, y)), RMul(z, z))

\* Math.hypot(x, y, z): Infinity if an argument is infinite, else NaN if one
\* is NaN, else the square root of the sum of squares.
Hypot(x, y, z) ==
    IF IsInf(x) \/ IsInf(y) \/ IsInf(z) THEN PosInf
    ELSE IF IsNaN(x) \/ IsNaN(y) \/ IsNaN(z) THEN NaN
    ELSE LET q == SumOfSquares(x, y, z)
         IN Overflow(<<ISqrt(q[1]), ISqrt(q[2])>>)

\* The square root Hypot takes is a rational number.
HypotExact(x, y, z) ==
    (IsFinite(x) /\ IsFinite(y) /\ IsFinite(z)) =>
        LET q == SumOfSquares(x, y, z) IN IsSquare(q[1]) /\ IsSquare(q[2])

\* The z axis without the `len === 0` test.
lookAtZ_NoZeroTest(eye, center) ==
    LET z0 == FSub(eye[1], center[1])
        z1 == FSub(eye[2], center[2])
        z2 == FSub(eye[3], center[3])
        len == Hypot(z0, z1, z2)
    IN <<FDiv(z0, len), FDiv(z1, len), FDiv(z2, len)>>

\* lookAt: the z axis (lines 318-331), <<z0, z1, z2>>.
lookAtZ(eye, center) ==
    LET z0 == FSub(eye[1], center[1])
        z1 == FSub(eye[2], center[2])
        z2 == FSub(eye[3], center[3])
        len == Hypot(z0, z1, z2)
    IN IF len = Zero THEN <<z0, z1, One>>
       ELSE <<FDiv(z0, len), FDiv(z1, len), FDiv(z2, len)>>

\* lookAt: up x z before it is normalised (lines 333-336).
lookAtCross(up, z) ==
    << FSub(FMul(up[2], z[3]), FMul(up[3], z[2])),
       FSub(FMul(up[3], z[1]), FMul(up[1], z[3])),
       FSub(FMul(up[1], z[2]), FMul(up[2], z[1])) >>

\* lookAt: the x axis (lines 333-345).
lookAtX(up, z) ==
    LET x == lookAtCross(up, z)
        len == Hypot(x[1], x[2], x[3])
    IN IF len = Zero THEN <<One, x[2], x[3]>>
       ELSE <<FDiv(x[1], len), FDiv(x[2], len), FDiv(x[3], len)>>

\* lookAt(out, eye, center, up)
lookAt(out, eye, center, up) ==
    LET z == lookAtZ(eye, center)
        x == lookAtX(up, z)
        y == << FSub(FMul(z[2], x[3]), FMul(z[3], x[2])),
                FSub(FMul(z[3], x[1]), FMul(z[1], x[3])),
                FSub(FMul(z[1], x[2]), FMul(z[2], x[1])) >>
        dot(v) == FNeg(FAdd(FAdd(FMul(v[1], eye[1]), FMul(v[2], eye[2])),
                            FMul(v[3], eye[3])))
    IN Write(out,
        (0 :> x[1]) @@ (1 :> y[1]) @@ (2 :> z[1]) @@ (3 :> Zero) @@
        (4 :> x[2]) @@ (5 :> y[2]) @@ (6 :> z[2]) @@ (7 :> Zero) @@
        (8 :> x[3]) @@ (9 :> y[3]) @@ (10 :> z[3]) @@ (11 :> Zero) @@
        (12 :> dot(x)) @@ (13 :> dot(y)) @@ (14 :> dot(z)) @@ (15 :> One))

\* The vectors an application passes: small ones, the zero vector, and ones
\* with components near the top of the number range.
LookVecs ==
    { Vec(0, 0, 0), Vec(0, 0, 1), Vec(0, 0, 5), Vec(0, 1, 0), Vec(3, 4, 0),
      Vec(240, 0, 0), Vec(1, 2, 2), Vec(600, 0, 0), Vec(-600, 0, 0), Vec(0, 900, 900) }

\* Both square roots lookAt takes for these arguments are rational.
LookExact(eye, center, up) ==
    LET d == <<FSub(eye[1], center[1]), FSub(eye[2], center[2]), FSub(eye[3], center[3])>>
        x == lookAtCross(up, lookAtZ(eye, center))
    IN /\ HypotExact(d[1], d[2], d[3])
       /\ HypotExact(x[1], x[2], x[3])

NoLook == [some |-> FALSE, eye |-> Vec(0, 0, 0), center |-> Vec(0, 0, 0),
           up |-> Vec(0, 0, 0), out |-> create]

LookInit == look = NoLook

\* mat4.lookAt(out, eye, center, up) with a reused out.  lookAt keeps no
\* state, so one call from the initial state stands for every call.
LookAtCall(eye, center, up) ==
    /\ ~look.some
    /\ LookExact(eye, center, up)
    /\ look' = [some |-> TRUE, eye |-> eye, center |-> center, up |-> up,
                out |-> lookAt(Junk, eye, center, up)]
    /\ UNCHANGED NotLook

LookNext == \E eye \in LookVecs, center \in LookVecs, up \in LookVecs :
                LookAtCall(eye, center, up)

(***************************************************************************)
(* Specifications.                                                         *)
(***************************************************************************)
LoaderIdle ==
    /\ prefer = << >> /\ idx = 1 /\ cpc = "returned" /\ mod = Null
    /\ hist = << >> /\ active = {} /\ result = Null

InitLoaderSpec == LoaderInit /\ lib = "three" /\ BlocksInit /\ LoopInit /\ MatInit /\ RenderInit /\ MeshInit /\ LookInit

SpecLoader == InitLoaderSpec /\ [][createEngine]_vars

InitBlocksSpec == LoaderIdle /\ lib \in Libs /\ BlocksInit /\ LoopInit /\ MatInit /\ RenderInit /\ MeshInit /\ LookInit

BlocksNext ==
    \/ \E c \in Coords, tex \in Textures : AddBlockCall(c, tex)
    \/ \E p \in pending : AddBlockResume(p)
    \/ \E c \in Coords : RemoveBlock(c)

SpecBlocks == InitBlocksSpec /\ [][BlocksNext]_vars

InitLoopSpec == LoaderIdle /\ lib \in Libs /\ BlocksInit /\ LoopInit /\ MatInit /\ RenderInit /\ MeshInit /\ LookInit

LoopNext == Start \/ Stop \/ Dispose \/ Frame

SpecLoop == InitLoopSpec /\ [][LoopNext]_vars

InitMatSpec == LoaderIdle /\ lib = "three" /\ BlocksInit /\ LoopInit /\ MatInit /\ RenderInit /\ MeshInit /\ LookInit

SpecMat == InitMatSpec /\ [][MatNext]_vars

InitRenderSpec == LoaderIdle /\ lib = "three" /\ BlocksInit /\ LoopInit /\ MatInit /\ RenderInit /\ MeshInit /\ LookInit

SpecRender == InitRenderSpec /\ [][RenderNext]_vars

InitMeshSpec == LoaderIdle /\ lib = "three" /\ BlocksInit /\ LoopInit /\ MatInit /\ RenderInit /\ MeshInit /\ LookInit

SpecMesh == InitMeshSpec /\ [][MeshNext]_vars

InitLookSpec ==
    LoaderIdle /\ lib = "three" /\ BlocksInit /\ LoopInit /\ MatInit /\ RenderInit /\ MeshInit /\ LookInit

SpecLook == InitLookSpec /\ [][LookNext]_vars

(***************************************************************************)
(* Claims about the engine loader.                                         *)
(***************************************************************************)
ImportSucceeded(h) == \E k \in 1..Len(h.imports) : h.imports[k][2]
ModuleObtained(h) == ImportSucceeded(h) \/ h.global

\* The parts of C1 that do not depend on how "the import succeeded" is read:
\* candidates are tried one by one in list order, a failure never rejects
\* the call early, and the call ends only by returning or by the explicit error.
LoaderSequential(succeeded(_)) ==
    /\ Len(hist) <= Len(prefer)
    /\ \A i \in 1..Len(hist) : hist[i].name = prefer[i]
    /\ Len(hist) = (IF cpc = "loop" THEN idx - 1 ELSE IF cpc = "rejected" THEN Len(prefer) ELSE idx)
    /\ \A i \in 1..Len(hist) : hist[i].init # "none" => succeeded(hist[i])
    /\ \A i \in 1..Len(hist) :
          hist[i].init = "ok" => (cpc = "returned" /\ i = Len(hist))
    /\ cpc = "returned" =>
          /\ result = [libName |-> hist[Len(hist)].lib, cand |-> Len(hist)]
          /\ hist[Len(hist)].init = "ok"
          /\ succeeded(hist[Len(hist)])
          /\ \A j \in 1..(Len(hist) - 1) : ~(succeeded(hist[j]) /\ hist[j].init = "ok")
    /\ cpc = "rejected" =>
          /\ result = [error |-> NoEngineError]
          /\ \A i \in 1..Len(prefer) : hist[i].init # "ok"
    /\ cpc \in {"loop", "init"} => result = Null /\ ENABLED createEngine

\* C1 (as amended): createEngine tries the candidates strictly in list order;
\* the adapter's init is attempted only if a module object was obtained (an
\* import succeeded or, for playcanvas, the window.pc global exists); a failure
\* of either step moves on to the next candidate; the handle comes from the
\* first candidate whose module was obtained and whose init succeeded; when
\* every candidate fails the call rejects with the explicit error.
C1_LoaderFallback == LoaderSequential(ModuleObtained)

\* C1 witness: a handle returned by a later candidate after an earlier
\* candidate imported but failed to initialise.
C1_Witness ==
    /\ cpc = "returned"
    /\ Len(hist) >= 2
    /\ ImportSucceeded(hist[1]) /\ hist[1].init = "throwAfter"
    /\ ImportSucceeded(hist[Len(hist)])

\* C1 (as claimed): as above, but init is attempted only if the import
\* succeeded, and the handle comes from a candidate whose import succeeded.
C1_Original == LoaderSequential(ImportSucceeded)

\* C2 (as claimed): whenever createEngine returns a handle, exactly one engine
\* is active on the canvas: nothing after the successful candidate was tried
\* and no engine of an earlier, failed candidate still holds the canvas.
C2_ExactlyOneActive ==
    cpc = "returned" =>
        /\ Len(hist) = result.cand
        /\ active = {EngineLeft(result.cand, result.libName, "ok")}

(***************************************************************************)
(* Claims about the block registry.                                        *)
(***************************************************************************)
\* C3: when every addBlock/removeBlock call is awaited before the next one is
\* issued, then between calls the registry holds exactly the coordinates added
\* and not removed since, each mapped to one native object of its own, and the
\* block objects in the scene are exactly the registry's values; addBlock on a
\* registered coordinate returns the registered object and creates nothing;
\* removeBlock returns true and unregisters exactly when the coordinate was
\* registered, and changes nothing otherwise.
C3_SequentialRegistry ==
    (~overlap /\ pending = {}) =>
        /\ DOMAIN blocks = { KeyOf(c) : c \in expected }
        /\ Cardinality(DOMAIN blocks) = Cardinality(expected)
        /\ scene = MapValues(blocks)
        /\ Cardinality(scene) = Cardinality(DOMAIN blocks)
        /\ lastCall.op = "addBlock" =>
              IF lastCall.key \in DOMAIN lastCall.preBlocks
              THEN /\ lastCall.obj = lastCall.preBlocks[lastCall.key]
                   /\ Len(material) = lastCall.preObjs
                   /\ blocks = lastCall.preBlocks
                   /\ scene = lastCall.preScene
              ELSE /\ blocks = MapSet(lastCall.preBlocks, lastCall.key, lastCall.obj)
                   /\ lastCall.obj \notin MapValues(lastCall.preBlocks)
                   /\ scene = lastCall.preScene \cup {lastCall.obj}
        /\ lastCall.op = "removeBlock" =>
              /\ lastCall.ok = (lastCall.key \in DOMAIN lastCall.preBlocks)
              /\ IF lastCall.ok
                 THEN /\ blocks = MapDelete(lastCall.preBlocks, lastCall.key)
                      /\ scene = lastCall.preScene \ {lastCall.preBlocks[lastCall.key]}
                 ELSE /\ blocks = lastCall.preBlocks
                      /\ scene = lastCall.preScene

\* C3 witness: awaited calls only, two coordinates added and one of them
\* removed again.
C3_Witness ==
    /\ ~overlap /\ pending = {}
    /\ nCalls = 3
    /\ lastCall.op = "removeBlock" /\ lastCall.ok
    /\ Cardinality(expected) = 1

\* C4 (as claimed): an addBlock with a texture that was suspended while a
\* removeBlock for its coordinate ran (and no later addBlock re-added it)
\* leaves, once it completes, no block in the scene or in the registry.
C4_RemoveBeatsPendingAdd ==
    (lastCall.op = "addBlock" /\ lastCall.tex # NoTexture /\ lastCall.removedWhilePending) =>
        /\ lastCall.key \notin DOMAIN blocks
        /\ lastCall.obj \notin scene

\* C5 (as claimed): an addBlock that created a block with a texture whose load
\* failed has completed with the block registered, in the scene, and carrying
\* a flat-colour material.
C5_TextureFailureFallsBack ==
    (lastCall.op = "addBlock" /\ lastCall.tex = BadUrl /\ lastCall.created = 1) =>
        /\ lastCall.key \in DOMAIN blocks
        /\ lastCall.obj \in scene
        /\ material[lastCall.obj] = "flat"

(***************************************************************************)
(* Claims about the render loop.                                           *)
(***************************************************************************)
\* C6 (as claimed): on every engine handle, a display refresh after stop()
\* has returned renders no frame, and a display refresh after start() has
\* returned renders the scene.
C6_StartStopUniform ==
    lastFrame.some =>
        /\ lastFrame.state = "stopped" => lastFrame.renders = 0
        /\ lastFrame.state = "started" => lastFrame.renders >= 1

(***************************************************************************)
(* Claims about mat4.  The reference results are the textbook ones for     *)
(* column-major 4x4 matrices: entry (row r, column c) is at index 4c + r.  *)
(***************************************************************************)
\* The matrix product a x b (apply b first, then a).
ColumnMajorProduct(a, b) ==
    [i \in 1..16 |->
        LET c == (i - 1) \div 4
            r == (i - 1) % 4
        IN RSum4(RMul(At(a, r), At(b, 4 * c)),
                 RMul(At(a, 4 + r), At(b, 4 * c + 1)),
                 RMul(At(a, 8 + r), At(b, 4 * c + 2)),
                 RMul(At(a, 12 + r), At(b, 4 * c + 3)))]

Sparse(w) == [i \in 1..16 |-> IF (i - 1) \in DOMAIN w THEN w[i - 1] ELSE Zero]

TranslationMatrix(v) ==
    Sparse((0 :> One) @@ (5 :> One) @@ (10 :> One) @@ (15 :> One) @@
           (12 :> v[1]) @@ (13 :> v[2]) @@ (14 :> v[3]))

ScalingMatrix(v) ==
    Sparse((0 :> v[1]) @@ (5 :> v[2]) @@ (10 :> v[3]) @@ (15 :> One))

RotationMatrix(axis, rad) ==
    LET c == Cos(rad)
        s == Sin(rad)
    IN IF axis = "X"
       THEN Sparse((0 :> One) @@ (5 :> c) @@ (6 :> s) @@ (9 :> RNeg(s)) @@ (10 :> c) @@ (15 :> One))
       ELSE IF axis = "Y"
       THEN Sparse((0 :> c) @@ (2 :> RNeg(s)) @@ (5 :> One) @@ (8 :> s) @@ (10 :> c) @@ (15 :> One))
       ELSE Sparse((0 :> c) @@ (1 :> s) @@ (4 :> RNeg(s)) @@ (5 :> c) @@ (10 :> One) @@ (15 :> One))

\* The orthographic projection of the box left..right, bottom..top, near..far.
OrthoMatrix(box) ==
    LET w == RSub(box[2], box[1])
        h == RSub(box[4], box[3])
        d == RSub(box[6], box[5])
    IN Sparse((0 :> RMul(R(2), RInv(w))) @@
              (5 :> RMul(R(2), RInv(h))) @@
              (10 :> RMul(R(-2), RInv(d))) @@
              (12 :> RNeg(RMul(RAdd(box[2], box[1]), RInv(w)))) @@
              (13 :> RNeg(RMul(RAdd(box[4], box[3]), RInv(h)))) @@
              (14 :> RNeg(RMul(RAdd(box[6], box[5]), RInv(d)))) @@
              (15 :> One))

\* The determinant, by cofactor expansion.
Det3(a, b, c, d, e, f, g, h, i) ==
    RAdd(RSub(RMul(a, RSub(RMul(e, i), RMul(f, h))),
              RMul(b, RSub(RMul(d, i), RMul(f, g)))),
         RMul(c, RSub(RMul(d, h), RMul(e, g))))

Det4(m) ==
    LET e(k) == At(m, k) IN
    RSub(RAdd(RSub(RMul(e(0), Det3(e(5), e(6), e(7), e(9), e(10), e(11), e(13), e(14), e(15))),
                   RMul(e(1), Det3(e(4), e(6), e(7), e(8), e(10), e(11), e(12), e(14), e(15)))),
              RMul(e(2), Det3(e(4), e(5), e(7), e(8), e(9), e(11), e(12), e(13), e(15)))),
         RMul(e(3), Det3(e(4), e(5), e(6), e(8), e(9), e(10), e(12), e(13), e(14))))

C8_MultiplyIsColumnMajor ==
    /\ lastOp.op \in {"multiply", "multiplyT"} =>
          mres = ColumnMajorProduct(lastOp.a, lastOp.b)
    /\ lastOp.op = "multiplyT" =>
          /\ lastOp.b = TranslationMatrix(lastOp.v)
          /\ mres = translate(lastOp.a, lastOp.a, lastOp.v)

\* The textbook result of the last call.
MathematicalResult(o) ==
    IF o.op = "translate" THEN ColumnMajorProduct(o.a, TranslationMatrix(o.v))
    ELSE IF o.op = "scale" THEN ColumnMajorProduct(o.a, ScalingMatrix(o.v))
    ELSE IF o.op = "rotateX" THEN ColumnMajorProduct(o.a, RotationMatrix("X", o.rad))
    ELSE IF o.op = "rotateY" THEN ColumnMajorProduct(o.a, RotationMatrix("Y", o.rad))
    ELSE IF o.op = "rotateZ" THEN ColumnMajorProduct(o.a, RotationMatrix("Z", o.rad))
    ELSE OrthoMatrix(o.box)

\* C9 (as claimed): translate, scale, rotateX/Y/Z and ortho called with an
\* output matrix that is not the input return the operation's mathematical
\* result in all 16 entries, whatever the output matrix held before.
C9_CompleteResult ==
    (/\ lastOp.op \in {"translate", "scale", "rotateX", "rotateY", "rotateZ", "ortho"}
     /\ lastOp.dest # "a") =>
        mres = MathematicalResult(lastOp)

(***************************************************************************)
(* Claims about the WebGL3D scene.                                         *)
(***************************************************************************)
RECURSIVE UpdateThenDrawEach(_)
UpdateThenDrawEach(ms) ==
    IF ms = << >> THEN << >>
    ELSE <<GlEvent("update", Head(ms)), GlEvent("draw", Head(ms))>>
         \o UpdateThenDrawEach(Tail(ms))

\* C10 (as claimed): a render() frame of a scene whose camera is set clears
\* first and then, for every added mesh in insertion order, updates the mesh
\* and draws it before it turns to the next one, each mesh once.
C10_FrameOrder ==
    (frame.some /\ frame.camera # Null) =>
        frame.log = <<GlEvent("clear", 0)>> \o UpdateThenDrawEach(frame.meshes)

\* The identity rotated about X, then Y, then Z by the angles r.
RotatedXYZ(r) ==
    ColumnMajorProduct(
        ColumnMajorProduct(RotationMatrix("X", r[1]), RotationMatrix("Y", r[2])),
        RotationMatrix("Z", r[3]))

\* C11 (as claimed): after N calls of update() on a mesh its rotation is
\* N x rotationSpeed on every axis and its model matrix is the identity
\* rotated about X, then Y, then Z by the accumulated angles.
C11_UpdateRebuildsModel ==
    \A m \in MeshIds :
        /\ \E n \in 0..nFrames : rotation[m] = [k \in 1..3 |-> n * rotationSpeed[k]]
        /\ model[m] = RotatedXYZ(rotation[m])

(***************************************************************************)
(* Claims about one mesh and its shader program.                           *)
(***************************************************************************)
IsDrawCall(c) == c.fn \in {"drawElements", "drawArrays"}
CallsOf(calls, fns) == SelectSeq(calls, LAMBDA c : c.fn \in fns)

\* C12: a draw(camera) with a camera issues exactly one draw call: for a mesh
\* built with an index list an indexed draw of indices.length indices,
\* otherwise a non-indexed draw of vertices.length / stride vertices.
C12_OneDrawCall ==
    (mdraw.some /\ mdraw.camera # Null) =>
        LET draws == SelectSeq(mdraw.calls, IsDrawCall) IN
        /\ ~mdraw.threw
        /\ Len(draws) = 1
        /\ IF mdraw.obj.indices # Null
           THEN draws[1] = GlCall("drawElements", "TRIANGLES", R(mdraw.obj.indices.length))
           ELSE /\ draws[1].fn = "drawArrays"
                /\ RMul(draws[1].n, R(mdraw.obj.stride)) = R(mdraw.obj.vertices)

\* C12 witness: the mesh of six vertices with stride 8 and six indices was
\* drawn with one indexed draw call of 6 indices.
C12_Witness ==
    /\ mdraw.some /\ mdraw.camera # Null
    /\ mdraw.obj.vertices = 48 /\ mdraw.obj.stride = 8
    /\ mdraw.obj.indices = IndexList(6)
    /\ CallsOf(mdraw.calls, {"drawElements", "drawArrays"})
          = <<GlCall("drawElements", "TRIANGLES", R(6))>>

\* The error message of the first stage that fails.
FirstFailure(sh) ==
    IF ~sh.vertex THEN "Shader compile error: " \o InfoLog("VERTEX_SHADER")
    ELSE IF ~sh.fragment THEN "Shader compile error: " \o InfoLog("FRAGMENT_SHADER")
    ELSE "Shader link error: " \o InfoLog("program")

\* C13: when the vertex stage, the fragment stage or the link fails, the
\* constructor ends with an error whose message carries the failing stage's
\* info log, no program and no mesh come back, every stage was attempted at
\* most once (no retry, no fallback shader), and no buffer was created.
C13_ShaderFailureIsFatal ==
    (mctor.some /\ ~(mctor.sh.vertex /\ mctor.sh.fragment /\ mctor.sh.link)) =>
        /\ mctor.threw
        /\ mctor.obj = Null
        /\ mctor.message = FirstFailure(mctor.sh)
        /\ CallsOf(mctor.calls, {"createBuffer", "bufferData"}) = << >>
        /\ Len(CallsOf(mctor.calls, {"linkProgram"})) <= 1
        /\ \A type \in {"VERTEX_SHADER", "FRAGMENT_SHADER"} :
              Len(SelectSeq(mctor.calls,
                            LAMBDA c : c.fn = "compileShader" /\ c.what = type)) <= 1

\* C13 witness: a constructor call whose fragment stage failed to compile
\* after the vertex stage compiled, while the application holds an earlier mesh.
C13_Witness ==
    /\ mctor.some
    /\ mctor.sh.vertex /\ ~mctor.sh.fragment
    /\ mctor.threw
    /\ mctor.message = "Shader compile error: info log of FRAGMENT_SHADER"
    /\ Len(mctor.calls) = 2
    /\ mobj # Null

(***************************************************************************)
(* Claims about mat4.lookAt.                                               *)
(***************************************************************************)
\* Every component is at most a quarter of the largest finite number in
\* magnitude, so that no difference, cross product or dot product lookAt
\* forms leaves the finite range.
Moderate(v) == \A k \in 1..3 : IsFinite(v[k]) /\ 4 * Abs(v[k][1]) <= MaxFloat * v[k][2]

AxisX(m) == <<At(m, 0), At(m, 4), At(m, 8)>>
AxisZ(m) == <<At(m, 2), At(m, 6), At(m, 10)>>
CrossIsZero(u, w) ==
    /\ RSub(RMul(u[2], w[3]), RMul(u[3], w[2])) = Zero
    /\ RSub(RMul(u[3], w[1]), RMul(u[1], w[3])) = Zero
    /\ RSub(RMul(u[1], w[2]), RMul(u[2], w[1])) = Zero

C15_SceneWithinRegistry ==
    pending = {} =>
        /\ scene \subseteq MapValues(blocks)
        /\ Cardinality(scene) <= Cardinality(DOMAIN blocks)

\* C16 (as claimed): whatever start(), stop() and dispose() calls were made,
\* at most one render-loop callback is scheduled or registered, and a display
\* refresh renders the scene at most once.
C16_AtMostOneLoop ==
    /\ Cardinality(scheduled) <= 1
    /\ Len(bloops) <= 1
    /\ lastFrame.some => lastFrame.renders <= 1

=============================================================================
